---- MODULE Spec2Model ----
(***************************************************************************)
(* Model of backend/modules/connection_runner.py: the ConnectionRunner     *)
(* worker (run, stop, the stdin message pump, the command dispatcher and   *)
(* the state-change handler), and of backend/modules/session_manager.py:   *)
(* the SessionManager with its sessions in memory and on the drive.        *)
(*                                                                         *)
(* Scheduling is asyncio's: one coroutine runs at a time and control can   *)
(* change hands only at an await.  Each action below runs a coroutine from *)
(* one await to the next.  stop() is cut at its two awaits (the lock and   *)
(* the gather) although neither suspends when the lock is free and _tasks  *)
(* is empty: the model therefore allows every interleaving asyncio allows, *)
(* and a few more.                                                         *)
(***************************************************************************)
EXTENDS Integers, Sequences, FiniteSets, TLC

\* Bounds of the model.
MaxLines == 2          \* inbound lines read from stdin
MaxTransitions == 2    \* Facade state transitions delivered to the handler
MaxRelays == 1         \* API messages the Facade hands to the relay callback
MaxCalls == 3          \* direct calls of the dispatcher before run()
MaxIds == 3            \* session ids generate_unique_id can draw from
MaxRev == 2            \* revisions of a session's data

\* time.time() in the PONG payload.
Time == 1

VARIABLES
    running,        \* self._running
    connection,     \* self._connection is not None
    stopped_event,  \* self._stopped_event.is_set()
    stoppedSets,    \* how often _stopped_event went from unset to set
    subscribed,     \* _handle_state_change is registered on the Facade
    runPc,          \* position of run(): init, factory, read, op, done, crashed
    runError,       \* the exception run() terminated with, or "none"
    exitReason,     \* why the while loop of the pump ended, or "none"
    pending,        \* the line the executor's readline has returned, not yet consumed
    arrivedRunning, \* value of running when the pending line arrived
    curOp,          \* the Facade operation the dispatcher awaits, or "none"
    nRead,          \* lines returned by readline so far
    eof,            \* stdin has reached end of file
    handlers,       \* one record per invocation of _handle_state_change
    stopCalls,      \* invocations of stop() made by _handle_state_change
    dispatched,     \* invocations of _handle_message
    facadeCalls,    \* Facade operations invoked, in order
    out,            \* what print has written to stdout, in order
    accesses,       \* reads and writes of _running made so far, with the lock held or not
    facadeDone,     \* Facade operations that have returned or raised
    arrived,        \* the lines readline has returned, in order
    relayed,        \* API messages relayed so far
    sessions,       \* SessionManager._sessions: id -> session data
    files,          \* the session directory: id -> content of "<id>.json"
    lastResult      \* outcome of the last SessionManager call

vars == <<running, connection, stopped_event, stoppedSets, subscribed, runPc,
          runError, exitReason, pending, arrivedRunning, curOp, nRead, eof,
          handlers, stopCalls, dispatched, facadeCalls, out, accesses,
          facadeDone, arrived, relayed, sessions, files, lastResult>>

\* The state of the SessionManager, and what the runner adds to its state
\* for the later properties.
sessionVars == <<sessions, files, lastResult>>

----------------------------------------------------------------------------
\* Lines as sys.stdin.readline returns them.  kind "text" is a line that is
\* not a JSON document and carries its characters in text; kind "array" is a
\* JSON document that is not an object; kind "object" is a JSON object with
\* the given keys.  nl tells whether the line ends with a newline: readline
\* drops it only for the last, unterminated line of the stream.

TextLine(t, n) ==
    [kind |-> "text", text |-> t, keys |-> {}, command |-> "", data |-> "", nl |-> n]

ArrayLine ==
    [kind |-> "array", text |-> "", keys |-> {}, command |-> "", data |-> "", nl |-> TRUE]

ObjectLine(k, c, d) ==
    [kind |-> "object", text |-> "", keys |-> k, command |-> c, data |-> d, nl |-> TRUE]

Envelope(c, d) == ObjectLine({"command", "data"}, c, d)

NoLine ==
    [kind |-> "none", text |-> "", keys |-> {}, command |-> "", data |-> "", nl |-> FALSE]

EmptyLine == TextLine("", FALSE)         \* readline at end of file
BareSentinel == TextLine("q", FALSE)     \* "q" as the unterminated last line
SentinelLine == TextLine("q", TRUE)      \* "q\n"
GarbageLine == TextLine("not valid data", TRUE)

Commands ==
    {"PING", "SEND", "CREATE_OFFER", "HANDLE_ANSWER", "STOP_SUBCONNECTION", "SET_MUTED"}

FacadeCommands == Commands \ {"PING"}

\* Lines that end with a newline.
TerminatedLines ==
    {SentinelLine, GarbageLine, ArrayLine,
     ObjectLine({"data"}, "", "null"), ObjectLine({"command"}, "PING", ""),
     Envelope("PING", "null"), Envelope("PING", "x"), Envelope("PING", "orig_x"),
     Envelope("SEND", "x"), Envelope("CREATE_OFFER", "x"),
     Envelope("HANDLE_ANSWER", "x"), Envelope("STOP_SUBCONNECTION", "x"),
     Envelope("SET_MUTED", "pair"), Envelope("SET_MUTED", "null"),
     Envelope("BOGUS", "x")}

\* Lines without a newline: they end the stream.
FinalLines == {EmptyLine, BareSentinel}

\* msg != "q" of the while condition compares the whole line, newline included.
IsSentinel(msg) == msg.kind = "text" /\ msg.text = "q" /\ ~msg.nl

\* json.loads(msg): JSONDecodeError unless the line is a JSON document.
JsonLoads(msg) == [ok |-> msg.kind # "text", doc |-> msg]

\* msg["data"] then msg["command"]: the exception they raise, or "none".
Subscript(doc) ==
    IF doc.kind # "object" THEN "TypeError"
    ELSE IF "data" \notin doc.keys THEN "KeyError"
    ELSE IF "command" \notin doc.keys THEN "KeyError"
    ELSE "none"

\* The Facade method a command awaits.
FacadeOp(command) ==
    CASE command = "SEND" -> "send"
      [] command = "CREATE_OFFER" -> "create_subscriber_offer"
      [] command = "HANDLE_ANSWER" -> "handle_subscriber_answer"
      [] command = "STOP_SUBCONNECTION" -> "stop_subconnection"
      [] command = "SET_MUTED" -> "set_muted"
      [] OTHER -> "none"

\* ConnectionState values a transition can lead to.
ConnectionStates == {"CONNECTING", "CONNECTED", "CLOSED", "FAILED"}

TerminalStates == {"CLOSED", "FAILED"}

\* What print writes after the text of a line.
Newline == [command |-> "\n", data |-> ""]

\* json.dumps({"command": command, "data": data}); print(..., flush=True):
\* the text of the envelope, then the newline.
send_command_unterminated(o, command, data) ==
    Append(o, [command |-> command, data |-> data])

send_command(o, command, data) ==
    Append(Append(o, [command |-> command, data |-> data]), Newline)

\* A record of self._logger: SubprocessLoggingHandler forwards it through
\* _send_command as a LOG envelope.
log_record(o, level, what) == send_command(o, "LOG", [level |-> level, what |-> what])

\* asyncio.Event.set(): the flag after the call.
EventSet(value) == TRUE

\* Wake-ups of asyncio.Event.set(): only an unset event is set.
EventSetCountAlways(value, count) == count + 1

EventSetCount(value, count) == IF value THEN count ELSE count + 1

\* The value stop() writes into _running.
StopFlagToggle(r) == ~r

StopFlag(r) == FALSE

\* The while condition and the guarded check of _running at the top of the
\* loop: "sentinel" and "stopped" end the loop, "continue" reads again.
WhileCheck(msg, r) ==
    IF IsSentinel(msg) THEN "sentinel"
    ELSE IF ~r THEN "stopped"
    ELSE "continue"

\* What the except branch of the pump does after logging.
OnDecodeErrorReturn(msg, r) == "stopped"

OnDecodeError(msg, r) == WhileCheck(msg, r)

\* The accesses to _running, by where they stand in the code: run() writes
\* it bare, stop() and the pump touch it inside "async with self._lock".
RunWrite == [site |-> "run", kind |-> "write", locked |-> FALSE]

StopWrite == [site |-> "stop", kind |-> "write", locked |-> TRUE]

PumpRead == [site |-> "pump", kind |-> "read", locked |-> TRUE]

\* The payload of the PONG that answers a PING with payload data.
PongWithoutOriginal(data) == [original |-> "null", subprocess_time |-> Time]

Pong(data) == [original |-> data, subprocess_time |-> Time]

\* run() sends the local description.
AnswerSkipped(o) == o

Answer(o) == send_command(o, "SET_LOCAL_DESCRIPTION", "answer")

\* What _handle_state_change prints up to the lock of stop().
StateChangeAfterStop(o, state) ==
    IF state \in TerminalStates
    THEN send_command(log_record(log_record(o, "debug", "stopping because of state"),
                                 "debug", "stopping"),
                      "STATE_CHANGE", state)
    ELSE send_command(o, "STATE_CHANGE", state)

StateChangeOutput(o, state) ==
    IF state \in TerminalStates
    THEN log_record(log_record(send_command(o, "STATE_CHANGE", state),
                               "debug", "stopping because of state"),
                    "debug", "stopping")
    ELSE send_command(o, "STATE_CHANGE", state)

\* The pump can take a line only while it awaits self._read().
ReadReadyWhileDispatching(pc) == pc \in {"read", "op"}

ReadReady(pc) == pc = "read"

\* Outcomes of the dispatcher: it returns having printed out, it raises
\* error, or it awaits the Facade operation op.
Returns(o) == [kind |-> "return", error |-> "none", out |-> o, op |-> "none"]

Raises(e, o) == [kind |-> "raise", error |-> e, out |-> o, op |-> "none"]

Awaits(op, o) == [kind |-> "await", error |-> "none", out |-> o, op |-> op]

\* case _: the command is none of the known ones.
OnUnrecognizedRaises(o) == Raises("ValueError", o)

OnUnrecognized(o) == Returns(log_record(o, "error", "unrecognized"))

\* The match statement of _handle_message, up to its first await.
DispatchConnected(doc, o) ==
    IF doc.command = "PING"
    THEN Returns(send_command(o, "PONG", Pong(doc.data)))
    ELSE IF doc.command = "SET_MUTED" /\ doc.data # "pair"
    THEN Raises("UnpackError", o)
    ELSE IF doc.command \in FacadeCommands
    THEN Awaits(FacadeOp(doc.command), o)
    ELSE OnUnrecognized(o)

\* _handle_message(msg) up to its first await, conn telling whether
\* self._connection is set.
DispatchUnguarded(doc, conn, o) ==
    IF Subscript(doc) # "none" THEN Raises(Subscript(doc), o)
    ELSE DispatchConnected(doc, o)

Dispatch(doc, conn, o) ==
    IF Subscript(doc) # "none" THEN Raises(Subscript(doc), o)
    ELSE IF ~conn THEN Returns(log_record(o, "warning", doc.command))
    ELSE DispatchConnected(doc, o)

\* Envelopes with a command and a payload.
CommandLines ==
    {line \in TerminatedLines : line.kind = "object" /\ line.keys = {"command", "data"}}

----------------------------------------------------------------------------
\* SessionManager: ids, session dicts and the drive.

\* The empty string as an id.
EmptyId == 0

\* The ids generate_unique_id draws from.
Ids == 1..MaxIds

Revs == 0..MaxRev

\* session_dict as create_session receives it: its id, the ids of its
\* participants, end_time and start_time.
SessionDicts ==
    [id : {EmptyId, 1}, participants : {<<>>, <<EmptyId>>, <<EmptyId, 1>>},
     end_time : {0, 1}, start_time : {0, 1}]

\* The checks of create_session on the fields that must hold their defaults.
ValidNewSession(d) ==
    /\ d.id = EmptyId
    /\ \A i \in 1..Len(d.participants) : d.participants[i] = EmptyId
    /\ d.end_time = 0
    /\ d.start_time = 0

\* generate_unique_id(existing_ids): the ids it can return.
UniqueIds(existing) == Ids \ existing

\* _write(session_dict): "<id>.json" holds the dict, unless the id is empty.
Write(fs, dict) ==
    IF dict.id = EmptyId THEN fs
    ELSE [k \in DOMAIN fs \cup {dict.id} |-> IF k = dict.id THEN dict ELSE fs[k]]

\* _delete_file("<id>.json"): the file is removed if it exists.
DeleteFileKept(fs, id) == fs

DeleteFile(fs, id) == [k \in DOMAIN fs \ {id} |-> fs[k]]

----------------------------------------------------------------------------
Init ==
    /\ running = FALSE
    /\ connection = FALSE
    /\ stopped_event = FALSE
    /\ stoppedSets = 0
    /\ subscribed = FALSE
    /\ runPc = "init"
    /\ runError = "none"
    /\ exitReason = "none"
    /\ pending = NoLine
    /\ arrivedRunning = FALSE
    /\ curOp = "none"
    /\ nRead = 0
    /\ eof = FALSE
    /\ handlers = <<>>
    /\ stopCalls = 0
    /\ dispatched = 0
    /\ facadeCalls = <<>>
    /\ out = <<>>
    /\ accesses = {}
    /\ facadeDone = 0
    /\ arrived = <<>>
    /\ relayed = 0
    /\ sessions = <<>>
    /\ files = <<>>
    /\ lastResult = "none"

\* The pump goes to the top of its loop with outcome w of the loop test, o
\* being what the iteration has printed; when the loop ends, so does run().
Iterate(w, o) ==
    /\ runPc' = IF w = "continue" THEN "read" ELSE "done"
    /\ exitReason' = IF w = "continue" THEN exitReason ELSE w
    /\ out' = IF w = "continue" THEN o ELSE log_record(o, "debug", "exiting")
    /\ accesses' = IF w = "sentinel" THEN accesses ELSE accesses \cup {PumpRead}

\* An exception e leaves the pump and run().
Raise(e) ==
    /\ runPc' = "crashed"
    /\ runError' = e
    /\ UNCHANGED exitReason

\* run(): _running = True, then the await of connection_factory.
run_start ==
    /\ runPc = "init"
    /\ running' = TRUE
    /\ accesses' = accesses \cup {RunWrite}
    /\ runPc' = "factory"
    /\ UNCHANGED <<connection, stopped_event, stoppedSets, subscribed, runError,
                   exitReason, pending, arrivedRunning, curOp, nRead, eof,
                   handlers, stopCalls, dispatched, facadeCalls, out>>
    /\ UNCHANGED <<facadeDone, arrived, relayed, sessionVars>>

\* connection_factory returns: the listener is added, SET_LOCAL_DESCRIPTION is
\* sent and the pump runs to its first read.
run_connected ==
    /\ runPc = "factory"
    /\ connection' = TRUE
    /\ subscribed' = TRUE
    /\ Iterate(WhileCheck(EmptyLine, running),
               log_record(Answer(out), "debug", "listening"))
    /\ UNCHANGED <<running, stopped_event, stoppedSets, runError, pending,
                   arrivedRunning, curOp, nRead, eof, handlers, stopCalls,
                   dispatched, facadeCalls>>
    /\ UNCHANGED <<facadeDone, arrived, relayed, sessionVars>>

\* connection_factory raises: the exception leaves run().
run_factory_fails ==
    /\ runPc = "factory"
    /\ Raise("FactoryError")
    /\ UNCHANGED <<running, connection, stopped_event, stoppedSets, subscribed,
                   pending, arrivedRunning, curOp, nRead, eof, handlers,
                   stopCalls, dispatched, facadeCalls, out>>
    /\ UNCHANGED <<accesses, facadeDone, arrived, relayed, sessionVars>>

\* _read(): sys.stdin.readline returns in the executor thread.
read_line(line) ==
    /\ ReadReady(runPc)
    /\ pending = NoLine
    /\ nRead < MaxLines
    /\ IF eof THEN line = EmptyLine ELSE line \in TerminatedLines \cup FinalLines
    /\ pending' = line
    /\ arrived' = Append(arrived, line)
    /\ arrivedRunning' = running
    /\ nRead' = nRead + 1
    /\ eof' = (eof \/ line \in FinalLines)
    /\ UNCHANGED <<running, connection, stopped_event, stoppedSets, subscribed,
                   runPc, runError, exitReason, curOp, handlers, stopCalls,
                   dispatched, facadeCalls, out>>
    /\ UNCHANGED <<accesses, facadeDone, relayed, sessionVars>>

\* _handle_message(msg) up to its first await, and the rest of the iteration
\* when it returns without awaiting.
handle_message(msg, doc) ==
    LET d == Dispatch(doc, connection, out) IN
    /\ dispatched' = dispatched + 1
    /\ CASE d.kind = "raise" ->
              /\ Raise(d.error)
              /\ UNCHANGED <<curOp, facadeCalls, out, accesses>>
         [] d.kind = "return" ->
              /\ Iterate(WhileCheck(msg, running), d.out)
              /\ UNCHANGED <<runError, curOp, facadeCalls>>
         [] d.kind = "await" ->
              /\ facadeCalls' = Append(facadeCalls, [op |-> d.op, arg |-> doc.data])
              /\ curOp' = doc.command
              /\ runPc' = "op"
              /\ UNCHANGED <<runError, exitReason, out, accesses>>

\* The pump resumes from await self._read() with the line.
listen_for_messages ==
    /\ runPc = "read"
    /\ pending # NoLine
    /\ IF ~JsonLoads(pending).ok
       THEN /\ Iterate(OnDecodeError(pending, running),
                       log_record(out, "error", "parse"))
            /\ UNCHANGED <<runError, curOp, dispatched, facadeCalls>>
       ELSE handle_message(pending, JsonLoads(pending).doc)
    /\ pending' = NoLine
    /\ UNCHANGED <<running, connection, stopped_event, stoppedSets, subscribed,
                   arrivedRunning, nRead, eof, handlers, stopCalls>>
    /\ UNCHANGED <<facadeDone, arrived, relayed, sessionVars>>

\* The awaited Facade operation returns; the dispatcher finishes and the pump
\* goes to the top of its loop.
facade_op_returns ==
    /\ runPc = "op"
    /\ curOp' = "none"
    /\ facadeDone' = facadeDone + 1
    /\ Iterate(WhileCheck(Envelope(curOp, "x"), running),
               IF curOp = "CREATE_OFFER"
               THEN send_command(out, "SUBSCRIBER_OFFER", "offer")
               ELSE out)
    /\ UNCHANGED <<running, connection, stopped_event, stoppedSets, subscribed,
                   runError, pending, arrivedRunning, nRead, eof, handlers,
                   stopCalls, dispatched, facadeCalls>>
    /\ UNCHANGED <<arrived, relayed, sessionVars>>

\* The awaited Facade operation raises; nothing catches it before run().
facade_op_raises ==
    /\ runPc = "op"
    /\ curOp' = "none"
    /\ facadeDone' = facadeDone + 1
    /\ Raise("FacadeError")
    /\ UNCHANGED <<running, connection, stopped_event, stoppedSets, subscribed,
                   pending, arrivedRunning, nRead, eof, handlers, stopCalls,
                   dispatched, facadeCalls, out>>
    /\ UNCHANGED <<accesses, arrived, relayed, sessionVars>>

\* The Facade emits a transition to state: _handle_state_change sends
\* STATE_CHANGE and, for a terminal state, calls stop(), which runs to its
\* lock.
handle_state_change(state) ==
    /\ subscribed
    /\ runPc \in {"read", "op"}
    /\ Len(handlers) < MaxTransitions
    /\ out' = StateChangeOutput(out, state)
    /\ handlers' = Append(handlers,
                      [state |-> state,
                       pc |-> IF state \in TerminalStates THEN "stop_lock" ELSE "done"])
    /\ stopCalls' = IF state \in TerminalStates THEN stopCalls + 1 ELSE stopCalls
    /\ UNCHANGED <<running, connection, stopped_event, stoppedSets, subscribed,
                   runPc, runError, exitReason, pending, arrivedRunning, curOp,
                   nRead, eof, dispatched, facadeCalls>>
    /\ UNCHANGED <<accesses, facadeDone, arrived, relayed, sessionVars>>

\* The Facade hands an API message to _relay_api_message.
relay_api_message ==
    /\ connection
    /\ runPc \in {"read", "op"}
    /\ relayed < MaxRelays
    /\ relayed' = relayed + 1
    /\ out' = send_command(out, "API", "message")
    /\ UNCHANGED <<running, connection, stopped_event, stoppedSets, subscribed,
                   runPc, runError, exitReason, pending, arrivedRunning, curOp,
                   nRead, eof, handlers, stopCalls, dispatched, facadeCalls>>
    /\ UNCHANGED <<accesses, facadeDone, arrived, sessionVars>>

\* stop(): async with self._lock: self._running = False
stop_lock(h) ==
    /\ handlers[h].pc = "stop_lock"
    /\ running' = StopFlag(running)
    /\ accesses' = accesses \cup {StopWrite}
    /\ handlers' = [handlers EXCEPT ![h].pc = "stop_gather"]
    /\ UNCHANGED <<connection, stopped_event, stoppedSets, subscribed, runPc,
                   runError, exitReason, pending, arrivedRunning, curOp, nRead,
                   eof, stopCalls, dispatched, facadeCalls, out>>
    /\ UNCHANGED <<facadeDone, arrived, relayed, sessionVars>>

\* self._tasks: nothing is ever appended to it.
tasks == {}

\* stop(): await asyncio.gather(*self._tasks); self._stopped_event.set()
stop_finish(h) ==
    /\ handlers[h].pc = "stop_gather"
    /\ \A t \in tasks : FALSE
    /\ stopped_event' = EventSet(stopped_event)
    /\ stoppedSets' = EventSetCount(stopped_event, stoppedSets)
    /\ out' = log_record(out, "debug", "stop complete")
    /\ handlers' = [handlers EXCEPT ![h].pc = "done"]
    /\ UNCHANGED <<running, connection, subscribed, runPc, runError, exitReason,
                   pending, arrivedRunning, curOp, nRead, eof, stopCalls,
                   dispatched, facadeCalls>>
    /\ UNCHANGED <<accesses, facadeDone, arrived, relayed, sessionVars>>

Next ==
    \/ run_start
    \/ run_connected
    \/ run_factory_fails
    \/ \E line \in TerminatedLines \cup FinalLines : read_line(line)
    \/ listen_for_messages
    \/ facade_op_returns
    \/ facade_op_raises
    \/ \E state \in ConnectionStates : handle_state_change(state)
    \/ \E h \in 1..MaxTransitions : h <= Len(handlers) /\ stop_lock(h)
    \/ \E h \in 1..MaxTransitions : h <= Len(handlers) /\ stop_finish(h)

Spec == Init /\ [][Next]_vars

\* The event loop runs every coroutine that is ready; the parent's lines and
\* the Facade's transitions come when they come.
FairSpec ==
    /\ Spec
    /\ WF_vars(run_start)
    /\ WF_vars(run_connected \/ run_factory_fails)
    /\ WF_vars(listen_for_messages)
    /\ WF_vars(facade_op_returns \/ facade_op_raises)
    /\ \A h \in 1..MaxTransitions :
          WF_vars(h <= Len(handlers) /\ (stop_lock(h) \/ stop_finish(h)))

----------------------------------------------------------------------------
\* The runner with every producer of outbound envelopes at work: the Facade
\* also relays API messages, and the parent sends lines that are answered or
\* logged.

WriterLines == {GarbageLine, Envelope("PING", "null"), Envelope("CREATE_OFFER", "x")}

WriterNext ==
    \/ run_start
    \/ run_connected
    \/ run_factory_fails
    \/ \E line \in WriterLines : read_line(line)
    \/ listen_for_messages
    \/ facade_op_returns
    \/ facade_op_raises
    \/ \E state \in ConnectionStates : handle_state_change(state)
    \/ relay_api_message
    \/ \E h \in 1..MaxTransitions : h <= Len(handlers) /\ stop_lock(h)
    \/ \E h \in 1..MaxTransitions : h <= Len(handlers) /\ stop_finish(h)

WriterSpec == Init /\ [][WriterNext]_vars

----------------------------------------------------------------------------
\* The dispatcher called on its own, on a runner that run() has not started:
\* self._connection is None.

dispatch_call(line) ==
    LET d == Dispatch(line, connection, out) IN
    /\ runPc = "init"
    /\ dispatched < MaxCalls
    /\ dispatched' = dispatched + 1
    /\ out' = d.out
    /\ runError' = d.error
    /\ facadeCalls' = IF d.kind = "await"
                      THEN Append(facadeCalls, [op |-> d.op, arg |-> line.data])
                      ELSE facadeCalls
    /\ UNCHANGED <<running, connection, stopped_event, stoppedSets, subscribed,
                   runPc, exitReason, pending, arrivedRunning, curOp, nRead, eof,
                   handlers, stopCalls>>
    /\ UNCHANGED <<accesses, facadeDone, arrived, relayed, sessionVars>>

DispatchNext == \E line \in CommandLines : dispatch_call(line)

DispatchSpec == Init /\ [][DispatchNext]_vars

----------------------------------------------------------------------------
\* SessionManager on an empty session directory.

runnerVars ==
    <<running, connection, stopped_event, stoppedSets, subscribed, runPc,
      runError, exitReason, pending, arrivedRunning, curOp, nRead, eof,
      handlers, stopCalls, dispatched, facadeCalls, out, accesses,
      facadeDone, arrived, relayed>>

\* create_session(session_dict); constructed tells whether SessionData(...)
\* returns or raises ErrorDictException.
create_session(d, constructed) ==
    /\ IF ~ValidNewSession(d) \/ ~constructed
       THEN /\ lastResult' = "create raised"
            /\ UNCHANGED <<sessions, files>>
       ELSE \E session_id \in UniqueIds(DOMAIN sessions) :
            LET session == [id |-> session_id, rev |-> 0] IN
            /\ sessions' = [k \in DOMAIN sessions \cup {session_id} |->
                               IF k = session_id THEN session ELSE sessions[k]]
            /\ files' = Write(files, session)
            /\ lastResult' = "created"
    /\ UNCHANGED runnerVars

\* delete_session(id)
delete_session(id) ==
    /\ IF id \notin DOMAIN sessions
       THEN /\ lastResult' = "delete raised"
            /\ UNCHANGED <<sessions, files>>
       ELSE /\ files' = DeleteFile(files, id)
            /\ sessions' = [k \in DOMAIN sessions \ {id} |-> sessions[k]]
            /\ lastResult' = "deleted"
    /\ UNCHANGED runnerVars

\* SessionData.update() changes the data of session session_id to revision
\* rev and calls _handle_session_update(session_id); the callback is also
\* called with an id the manager does not hold.
handle_session_update(session_id, rev) ==
    /\ IF session_id \notin DOMAIN sessions
       THEN /\ lastResult' = "update ignored"
            /\ UNCHANGED <<sessions, files>>
       ELSE /\ sessions' = [sessions EXCEPT ![session_id].rev = rev]
            /\ files' = Write(files, sessions'[session_id])
            /\ lastResult' = "updated"
    /\ UNCHANGED runnerVars

SessionNext ==
    \/ \E d \in SessionDicts, constructed \in BOOLEAN : create_session(d, constructed)
    \/ \E id \in Ids : delete_session(id)
    \/ \E session_id \in Ids \cup {EmptyId}, rev \in Revs :
          handle_session_update(session_id, rev)

SessionSpec == Init /\ [][SessionNext]_vars

----------------------------------------------------------------------------
\* Steps and states the properties speak about.

\* The pump consumes the pending line in this step.
PumpConsumes == pending # NoLine /\ pending' = NoLine

\* Handlers whose stop() has passed its lock, and whose stop() has returned.
StopsPastLock ==
    {h \in 1..Len(handlers) : handlers[h].state \in TerminalStates
                              /\ handlers[h].pc \in {"stop_gather", "done"}}

StopsReturned ==
    {h \in 1..Len(handlers) : handlers[h].state \in TerminalStates
                              /\ handlers[h].pc = "done"}

ParseErrorLog == [command |-> "LOG", data |-> [level |-> "error", what |-> "parse"]]

\* C1: a command that arrives once running is false is never dispatched to
\* _handle_message, also when stop() ran while the pump was blocked in its read.
C1_NoDispatchAfterStop ==
    [][(PumpConsumes /\ dispatched' > dispatched) => arrivedRunning]_vars

\* C2: whenever the stopped event is set, no dispatched Facade operation is
\* still in flight.
C2_StoppedAfterWork == stopped_event => runPc # "op"

C4_AutoStopAtMostOnce == stopCalls <= 1

\* C5: after a transition to CLOSED or FAILED, run() eventually ends without
\* a further inbound line.
C5_SelfTerminates ==
    (\E h \in 1..Len(handlers) : handlers[h].state \in TerminalStates)
        ~> (runPc \in {"done", "crashed"})

\* C6: once run() has set running and running has become false, running
\* stays false: it falls at most once and never rises again.
C6_RunningFallsOnce ==
    [][(runPc # "init" /\ ~running) => ~running']_vars

C6_Witness == Cardinality(StopsPastLock) = 2 /\ ~running /\ runPc = "read"

\* The pump consumes a line that json.loads rejects.
DecodeFailure == PumpConsumes /\ ~JsonLoads(pending).ok

\* The iteration logs the parse failure, dispatches nothing and goes to the
\* top of the loop, which reads again unless running is false.
DecodeFailureRecovered ==
    /\ Len(out') > Len(out)
    /\ SubSeq(out', 1, Len(out)) = out
    /\ out'[Len(out) + 1].command = "LOG"
    /\ out'[Len(out) + 1].data = [level |-> "error", what |-> "parse"]
    /\ dispatched' = dispatched
    /\ facadeCalls' = facadeCalls
    /\ runError' = "none"
    /\ runPc' = IF running THEN "read" ELSE "done"

\* The pump consumes a valid PING and answers it with one PONG.
PingAnswered ==
    (PumpConsumes /\ pending.kind = "object" /\ Subscript(pending) = "none"
       /\ pending.command = "PING" /\ connection)
    => /\ Len(out') > Len(out)
       /\ SubSeq(out', 1, Len(out)) = out
       /\ out'[Len(out) + 1].command = "PONG"
       /\ out'[Len(out) + 1].data.original = pending.data

\* C7 (as amended): every line that is not JSON, other than the unterminated
\* sentinel q, is logged, dispatches nothing and leaves the pump in its loop,
\* which reads on while running is true; a PING read afterwards is answered
\* with a PONG.
C7_DecodeFailureRecovers ==
    [][/\ (DecodeFailure /\ pending # BareSentinel) => DecodeFailureRecovered
       /\ PingAnswered]_vars

\* C7 (as stated): the same of every line that is not JSON.
C7_Original ==
    [][/\ DecodeFailure => DecodeFailureRecovered
       /\ PingAnswered]_vars

C7_Witness ==
    \E i, j \in 1..Len(out) :
        /\ i < j
        /\ out[i].command = "LOG" /\ out[i].data.what = "parse"
        /\ out[j].command = "PONG"
        /\ runPc = "read"

\* C8: a JSON line that is not an object or lacks command or data is logged,
\* dispatches nothing and leaves the pump running.
C8_MalformedEnvelopeRecovers ==
    [][(PumpConsumes /\ JsonLoads(pending).ok /\ Subscript(pending) # "none")
       => /\ runPc' = (IF running THEN "read" ELSE "done")
          /\ runError' = "none"
          /\ dispatched' = dispatched
          /\ facadeCalls' = facadeCalls
          /\ Len(out') > Len(out)
          /\ out'[Len(out) + 1].command = "LOG"]_vars

\* C9: when the awaited Facade operation ends, however it ends, the pump is
\* in its loop or has left it by the running flag, and run() has no error.
C9_PumpSurvivesFacadeFailure ==
    [][(runPc = "op" /\ runPc' # "op")
       => (runPc' \in {"read", "done"} /\ runError' = "none")]_vars

\* C10: the loop ends only by observing running false or by the sentinel q,
\* and the line q, as readline delivers it, ends the loop and run().
C10_LoopExits ==
    [][/\ (runPc \in {"read", "op"} /\ runPc' \notin {"read", "op"})
          => /\ runPc' = "done"
             /\ ~running \/ (pending.kind = "text" /\ pending.text = "q")
       /\ (PumpConsumes /\ pending = SentinelLine) => runPc' = "done"]_vars

----------------------------------------------------------------------------
\* The step prints n lines and nothing else.
PrintsOnly(n) == Len(out') = Len(out) + 2 * n /\ SubSeq(out', 1, Len(out)) = out

\* C11: a command dispatched while self._connection is None produces no
\* reply (one warning record and nothing else), invokes no Facade operation
\* and raises nothing.
C11_NoFacadeNoReply ==
    [][(dispatched' > dispatched /\ ~connection)
       => /\ PrintsOnly(1)
          /\ out'[Len(out) + 1].command = "LOG"
          /\ out'[Len(out) + 1].data.level = "warning"
          /\ facadeCalls' = facadeCalls
          /\ runError' = "none"]_vars

C11_Witness ==
    /\ ~connection
    /\ dispatched = 2
    /\ \E i, j \in 1..Len(out) :
          /\ out[i].command = "LOG" /\ out[i].data.what = "PING"
          /\ out[j].command = "LOG" /\ out[j].data.what = "SET_MUTED"

\* The member "original" of a PING payload: "orig_x" stands for the object
\* {"original": "x"}, the other payloads have no such member.
Original(data) == IF data = "orig_x" THEN "x" ELSE "null"

\* The pump consumes a well-formed PING while the Facade exists.
PingDispatched ==
    /\ PumpConsumes
    /\ pending.kind = "object" /\ Subscript(pending) = "none"
    /\ pending.command = "PING"
    /\ connection

\* The step prints one PONG first and, after it, nothing but log records.
OnePongPrinted ==
    /\ Len(out') > Len(out)
    /\ SubSeq(out', 1, Len(out)) = out
    /\ out'[Len(out) + 1].command = "PONG"
    /\ \A i \in (Len(out) + 2)..Len(out') : out'[i].command \in {"\n", "LOG"}

UnrecognizedDispatched ==
    /\ PumpConsumes
    /\ pending.kind = "object" /\ Subscript(pending) = "none"
    /\ pending.command \notin Commands
    /\ connection

\* C13: an envelope with an unknown command logs an error, sends no reply,
\* invokes no Facade operation, leaves running as it is and returns the pump
\* to the top of its loop, which reads the next line unless running is false.
C13_UnrecognizedIsLogged ==
    [][UnrecognizedDispatched
       => /\ Len(out') > Len(out)
          /\ SubSeq(out', 1, Len(out)) = out
          /\ out'[Len(out) + 1].command = "LOG"
          /\ out'[Len(out) + 1].data = [level |-> "error", what |-> "unrecognized"]
          /\ \A i \in (Len(out) + 2)..Len(out') : out'[i].command \in {"\n", "LOG"}
          /\ facadeCalls' = facadeCalls
          /\ running' = running
          /\ runError' = "none"
          /\ runPc' = IF running THEN "read" ELSE "done"]_vars

C13_Witness ==
    /\ Len(arrived) = 2
    /\ arrived[1] = Envelope("BOGUS", "x")
    /\ \E i \in 1..Len(out) :
          out[i].command = "LOG" /\ out[i].data.what = "unrecognized"

\* C14: every read and every write of running is made with the lock held.
C14_RunningGuarded == \A a \in accesses : a.locked

IsStateChange(e) == e.command = "STATE_CHANGE"

\* C16: the STATE_CHANGE envelopes are, one for one and in order, the
\* transitions delivered to the handler, and stop() begins (its first log
\* record) only after the STATE_CHANGE of its terminal transition is out.
C16_StateChangesInOrder ==
    /\ Len(SelectSeq(out, IsStateChange)) = Len(handlers)
    /\ \A h \in 1..Len(handlers) :
          SelectSeq(out, IsStateChange)[h].data = handlers[h].state
    /\ \A i \in 1..Len(out) :
          (out[i].command = "LOG" /\ out[i].data.what = "stopping")
          => /\ i > 4
             /\ out[i - 4].command = "STATE_CHANGE"
             /\ out[i - 4].data \in TerminalStates

C16_Witness ==
    /\ Len(handlers) = 2
    /\ handlers[1].state = "CONNECTED"
    /\ handlers[2].state = "FAILED"
    /\ handlers[2].pc = "done"

LocalDescriptions == {i \in 1..Len(out) : out[i].command = "SET_LOCAL_DESCRIPTION"}

\* C18: run() sends SET_LOCAL_DESCRIPTION exactly once, after the Facade is
\* built and the handler subscribed and before the pump reads or dispatches a
\* line: no PONG, SUBSCRIBER_OFFER or STATE_CHANGE precedes it; when the
\* factory fails it is not sent and the pump is not entered.
C18_LocalDescriptionFirst ==
    /\ Cardinality(LocalDescriptions) =
          (IF runPc \in {"init", "factory"} \/ runError = "FactoryError" THEN 0 ELSE 1)
    /\ LocalDescriptions # {} => (connection /\ subscribed)
    /\ \A i \in 1..Len(out) :
          out[i].command \in {"PONG", "SUBSCRIBER_OFFER", "STATE_CHANGE"}
          => \E j \in LocalDescriptions : j < i
    /\ (nRead > 0 \/ dispatched > 0) => LocalDescriptions # {}
    /\ runError = "FactoryError" => (out = <<>> /\ exitReason = "none")

C18_Witness ==
    \E i, j, k \in 1..Len(out) :
        /\ i < j /\ j < k
        /\ out[i].command = "SET_LOCAL_DESCRIPTION"
        /\ out[j].command = "STATE_CHANGE"
        /\ out[k].command = "PONG"

IsReply(e) == e.command \in {"PONG", "SUBSCRIBER_OFFER"}

\* A reply by its command and, for a PONG, the payload it echoes.
ReplyKey(e) ==
    IF e.command = "PONG" THEN <<"PONG", e.data.original>>
    ELSE <<"SUBSCRIBER_OFFER", "offer">>

RECURSIVE KeysOf(_)
KeysOf(replies) ==
    IF replies = <<>> THEN <<>>
    ELSE <<ReplyKey(Head(replies))>> \o KeysOf(Tail(replies))

\* The replies the lines call for, in the order of the lines.
RECURSIVE ExpectedReplies(_)
ExpectedReplies(lines) ==
    IF lines = <<>> THEN <<>>
    ELSE (IF Head(lines).kind = "object" /\ Subscript(Head(lines)) = "none"
             /\ Head(lines).command = "PING"
          THEN <<<<"PONG", Head(lines).data>>>>
          ELSE IF Head(lines).kind = "object" /\ Subscript(Head(lines)) = "none"
                  /\ Head(lines).command = "CREATE_OFFER"
          THEN <<<<"SUBSCRIBER_OFFER", "offer">>>>
          ELSE <<>>)
         \o ExpectedReplies(Tail(lines))

\* C19: while a dispatch is in flight the pump reads nothing, at most one
\* Facade operation is in flight, and the replies come in the order in which
\* their commands arrived.
C19_SerialDispatch ==
    [][/\ runPc = "op" => (pending = NoLine /\ arrived' = arrived)
       /\ Len(facadeCalls) - facadeDone = (IF runPc = "op" THEN 1 ELSE 0)
       /\ Len(SelectSeq(out, IsReply)) <= Len(ExpectedReplies(arrived))
       /\ KeysOf(SelectSeq(out, IsReply))
            = SubSeq(ExpectedReplies(arrived), 1, Len(SelectSeq(out, IsReply)))]_vars

C19_Witness ==
    /\ Len(SelectSeq(out, IsReply)) = 2
    /\ SelectSeq(out, IsReply)[1].command = "SUBSCRIBER_OFFER"
    /\ SelectSeq(out, IsReply)[2].command = "PONG"
    /\ facadeDone = 1

\* C20: once stdin is closed, each empty read logs a parse error, dispatches
\* nothing and returns the pump to its read; the loop ends only when running
\* is found false.
C20_ClosedStreamSpins ==
    [][(PumpConsumes /\ pending = EmptyLine)
       => /\ PrintsOnly(IF running THEN 1 ELSE 2)
          /\ out'[Len(out) + 1].command = "LOG"
          /\ out'[Len(out) + 1].data = [level |-> "error", what |-> "parse"]
          /\ dispatched' = dispatched
          /\ facadeCalls' = facadeCalls
          /\ runError' = "none"
          /\ IF running
             THEN runPc' = "read" /\ exitReason' = "none"
             ELSE runPc' = "done" /\ exitReason' = "stopped"]_vars

C20_Witness ==
    /\ arrived = <<EmptyLine, EmptyLine>>
    /\ pending = NoLine
    /\ runPc = "read"
    /\ running

\* C15: whoever prints, each envelope is on stdout as one whole line: its
\* text, then its newline, and no text of another envelope in between.
C15_LinesWhole ==
    /\ Len(out) % 2 = 0
    /\ \A i \in 1..Len(out) :
          IF i % 2 = 1 THEN out[i].command # "\n" ELSE out[i].command = "\n"

C15_Witness ==
    \E i, j, k, l \in 1..Len(out) :
        /\ out[i].command = "API"
        /\ out[j].command = "STATE_CHANGE"
        /\ out[k].command = "PONG"
        /\ out[l].command = "LOG" /\ out[l].data.what = "parse"

\* C17: the files of the session directory are those of the sessions in
\* memory, each session is held under its own id, a create_session that
\* succeeds adds one new id, and a create_session that raises or a
\* delete_session of an unknown id changes neither memory nor drive.
C17_DriveMatchesMemory ==
    [][/\ DOMAIN files = DOMAIN sessions
       /\ \A k \in DOMAIN sessions : sessions[k].id = k /\ files[k] = sessions[k]
       /\ DOMAIN files' = DOMAIN sessions'
       /\ lastResult' = "created"
          => Cardinality(DOMAIN sessions') = Cardinality(DOMAIN sessions) + 1
       /\ lastResult' \in {"create raised", "delete raised", "update ignored"}
          => (sessions' = sessions /\ files' = files)]_vars

C17_Witness ==
    /\ Cardinality(DOMAIN sessions) = 2
    /\ DOMAIN files = DOMAIN sessions
    /\ \E k \in DOMAIN sessions : sessions[k].rev = 1
    /\ lastResult = "delete raised"

====
